---------------------------- MODULE Spec2Model ----------------------------
(***************************************************************************)
(* Hymnal Browser (src/browser.py): the hymnal index (HymnsDatabase), the  *)
(* statistics store (Data), the query handler (InputCore.updateDetails),   *)
(* the launch handler (InputCore.executeFile), the one-second background   *)
(* timer (ThreadBackground.run) and the statistics reset                   *)
(* (QWGT_SETTINGS.triggerButton).                                          *)
(*                                                                         *)
(* Text is modelled as a sequence of one-character strings, so that the    *)
(* positional slicing of file names, the zero padding of numbers and the   *)
(* parsing of digits are computed as the code computes them.               *)
(*                                                                         *)
(* Not modelled: the sorted search list HYMNAL.HYMNS (only the numbers it  *)
(* offers as completions are used), extraction of the slide file, and the  *)
(* recent list of the full-size window: the active window UIZ is the       *)
(* compact window (QWGT_COMPACT), where the branches "UIZ == UIA" are not   *)
(* taken. Every handler of the UI thread and every pass of the timer loop  *)
(* is one atomic action.                                                   *)
(***************************************************************************)
EXTENDS Integers, Sequences, FiniteSets, TLC

VARIABLES
    archive,            \* the file SYS.FILE_HYMNSDB: [ok, FNS]
    HYMNAL,             \* the catalog built by parseHymnDatabase
    FILE_DATA,          \* the file SYS.FILE_DATA (data.json) on disk
    writable,           \* open(SYS.FILE_DATA, "w") succeeds (permissions)
    SDB_DATA,           \* SDB.DATA, the document Data.check loaded last
    SDATA,              \* the global SDATA that queries and recordings use
    LNE_SEARCH,         \* first three characters of UIZ.LNE_SEARCH.text()
    CPLTR,              \* first three characters of the current completion
    CURRENT_HINFO,      \* UIZ.INP.CURRENT_HINFO
    EXEC_READY,         \* UIZ.EXEC_READY
    QUERY_TIMEOUT,      \* UIZ.QUERY_TIMEOUT
    QUERY_TIMEOUT_FILL, \* UIZ.QUERY_TIMEOUT_FILL
    LAST_QUERY_ID,      \* UIZ.LAST_QUERY_ID
    BTN_LAUNCH,         \* UIZ.BTN_LAUNCH.isEnabled()
    SUGGEST,            \* numbers of the completer's list (HYMNAL.HYMNS at
                        \* genSearchSuggestions)
    timer,              \* the thread ThreadBackground: "on" or "dead"
    phase,              \* "boot", "running", "exited" (sys.exit), "raised"
    now,                \* logical clock: the value time.time() returns next
    stale,              \* history: who wrote the current hymn's entry since
                        \* CURRENT_HINFO was read ("no", "timer", "reset",
                        \* "launch"), or "catalog" once the catalog changed
    qrun,               \* history: per number, the entry stored before
                        \* its latest query-only recording, while nothing
                        \* else has written the entry since (else <<>>)
    temp,               \* the directory SYS.DIR_TEMP: the files listed, their
                        \* access times, and the files that cannot be removed
    fmn,                \* FileManager.deleteOldest: its position and arguments
    fresh,              \* history: the input changed and the timer has not
                        \* made a pass since
    last                \* history: the last handler that wrote the catalog,
                        \* the record or the query result

ui == <<LNE_SEARCH, CPLTR, CURRENT_HINFO, EXEC_READY, QUERY_TIMEOUT,
        QUERY_TIMEOUT_FILL, LAST_QUERY_ID, BTN_LAUNCH, SUGGEST, timer>>
store == <<FILE_DATA, SDB_DATA, SDATA>>
hist == <<stale, qrun, fresh>>
fm == <<temp, fmn>>
vars == <<archive, HYMNAL, store, writable, ui, phase, now, hist, last, fm>>

(***************************************************************************)
(* Bounds of the model.                                                    *)
(***************************************************************************)
\* SYS.HYMNS_MAX is 474 in the program (src/browser.py:103); the model keeps
\* the same code over a corpus of this many numbers.
HYMNS_MAX == 2
\* Largest number of archive entries in an enumerated archive.
MaxFiles == 3
\* Largest value of the logical clock (recordings, launches, resets).
MaxTime == 4
\* The countdown QUERY_TIMEOUT_FILL is not decremented below -MaxNeg (every
\* value below zero behaves alike).
MaxNeg == 1
\* Largest number of files in SYS.DIR_TEMP when deleteOldest is called.
MaxTemp == 3
\* Largest threshold deleteOldest is called with (the program passes 3..30
\* for recent files and 10 for log files).
MaxThreshold == 2

(***************************************************************************)
(* Text helpers.                                                           *)
(***************************************************************************)
Digits == {"0", "1", "2", "3", "4", "5", "6", "7", "8", "9"}

DigitVal(c) ==
    CASE c = "0" -> 0 [] c = "1" -> 1 [] c = "2" -> 2 [] c = "3" -> 3
      [] c = "4" -> 4 [] c = "5" -> 5 [] c = "6" -> 6 [] c = "7" -> 7
      [] c = "8" -> 8 [] c = "9" -> 9

DigitChar(d) ==
    CASE d = 0 -> "0" [] d = 1 -> "1" [] d = 2 -> "2" [] d = 3 -> "3"
      [] d = 4 -> "4" [] d = 5 -> "5" [] d = 6 -> "6" [] d = 7 -> "7"
      [] d = 8 -> "8" [] d = 9 -> "9"

Min(a, b) == IF a < b THEN a ELSE b
Max(a, b) == IF a < b THEN b ELSE a

\* Python s[a:b] for a >= 0 and any b (a negative b counts from the end).
PySlice(s, a, b) ==
    LET e == IF b < 0 THEN Max(Len(s) + b, 0) ELSE Min(b, Len(s))
    IN  SubSeq(s, a + 1, e)

\* Python s[a:].
PyFrom(s, a) == SubSeq(s, a + 1, Len(s))

\* str.isdigit(): non-empty and digits only.
isdigit(s) == Len(s) > 0 /\ \A k \in 1..Len(s) : s[k] \in Digits

\* int(s) of a digit string.
RECURSIVE int(_)
int(s) ==
    IF Len(s) = 0 THEN 0
    ELSE 10 * int(SubSeq(s, 1, Len(s) - 1)) + DigitVal(s[Len(s)])

\* str(n) of a natural number.
RECURSIVE str(_)
str(n) ==
    IF n < 10 THEN <<DigitChar(n)>>
    ELSE Append(str(n \div 10), DigitChar(n % 10))

\* str.zfill(w): pad on the left with "0" up to width w.
RECURSIVE zfill(_, _)
zfill(s, w) == IF Len(s) >= w THEN s ELSE zfill(<<"0">> \o s, w)

\* KString.toDigits(value, 3) of the KCore library: the value as text,
\* zero-padded to three characters; text is padded as it is.
toDigits(n) == zfill(str(n), 3)
toDigitsStr(s) == zfill(s, 3)

\* KString.filterOnly(0, s): the letters of s.
Letters == {"a", "b", "c", "A", "B", "C", "D", "E", "F", "G",
            "N", "T", "L", "U", "S", "X", "p", "t", "x"}
hasLetters(s) == \E k \in 1..Len(s) : s[k] \in Letters

\* x in list
In(x, list) == \E k \in 1..Len(list) : list[k] = x

\* list.index(x), 0-based; used only where In(x, list).
index(list, x) ==
    (CHOOSE k \in 1..Len(list) :
        list[k] = x /\ \A m \in 1..(k - 1) : list[m] # x) - 1

\* s is a substring of t (Python: s in t).
IsSubstring(s, t) ==
    \E a \in 0..(Len(t) - Len(s)) : SubSeq(t, a + 1, a + Len(s)) = s

(***************************************************************************)
(* The archive: entry names and HymnsDatabase.                             *)
(***************************************************************************)
PPTX == <<"p", "p", "t", "x">>
TXT == <<"t", "x", "t">>
CatEN == <<"E", "N">>
CatTL == <<"T", "L">>
CatUS == <<"U", "S">>
CatXX == <<"X", "X">>
CATS == <<CatEN, CatTL, CatUS>>

\* spH.num of an entry whose characters 4-6 are not digits: the integer 0.
Int0 == <<"<int 0>">>

\* An entry name "<cat>/<num> <title>.<ext>".
FileName(cat, num, title, ext) ==
    cat \o <<"/">> \o num \o <<" ">> \o title \o <<".">> \o ext

\* The entry names archives of the model are made of.
Pool ==
    { FileName(CatEN, <<"0", "0", "1">>, <<"A">>, PPTX),
      FileName(CatTL, <<"0", "0", "2">>, <<"B">>, PPTX),
      FileName(CatTL, <<"0", "0", "2">>, <<"D">>, PPTX),
      FileName(CatEN, <<"0", "0", "2">>, <<"E">>, PPTX),
      FileName(CatUS, <<"0", "0", "2">>, <<"F">>, PPTX),
      FileName(CatEN, <<"0", "0", "2">>, <<"G">>, TXT),
      FileName(CatXX, <<"0", "0", "1">>, <<"X">>, PPTX),
      FileName(CatTL, <<"0", "0", "3">>, <<"H">>, PPTX),
      FileName(CatEN, <<"a", "b", "c">>, <<"C">>, PPTX),
      CatEN \o <<"/">> }

\* Position of the last "." of s, 0 when there is none.
LastDot(s) ==
    IF \E k \in 1..Len(s) : s[k] = "."
    THEN CHOOSE k \in 1..Len(s) :
            s[k] = "." /\ \A m \in (k + 1)..Len(s) : s[m] # "."
    ELSE 0

\* HymnsDatabase.splitHymn
splitHymn(hymnFile) ==
    [ cat   |-> PySlice(hymnFile, 0, 2),
      num   |-> IF isdigit(PySlice(hymnFile, 3, 6))
                THEN PySlice(hymnFile, 3, 6) ELSE Int0,
      title |-> PySlice(hymnFile, 7, -5),
      ext   |-> PyFrom(hymnFile, LastDot(hymnFile)) ]

\* The condition as it would be without the test of the extension.
Indexed_anyExt(spH, i) == spH.cat = CATS[i + 1]

\* The condition of line 884 for category i (0, 1, 2).
Indexed(spH, i) == spH.cat = CATS[i + 1] /\ spH.ext = PPTX

\* The pass as it would be with titles inserted at the front.
ParseEntry_front(acc, FILE) ==
    LET spH == splitHymn(FILE)
        put(i) == IF Indexed(spH, i)
                  THEN <<Append(acc.cat[i + 1][1], spH.num),
                         <<spH.title>> \o acc.cat[i + 1][2]>>
                  ELSE acc.cat[i + 1]
    IN  [ hNums |-> Append(acc.hNums, spH.num),
          cat   |-> <<put(0), put(1), put(2)>> ]

\* One pass of the loop of lines 880-889 over the entry FILE.
ParseEntry(acc, FILE) ==
    LET spH == splitHymn(FILE)
        put(i) == IF Indexed(spH, i)
                  THEN <<Append(acc.cat[i + 1][1], spH.num),
                         Append(acc.cat[i + 1][2], spH.title)>>
                  ELSE acc.cat[i + 1]
    IN  [ hNums |-> Append(acc.hNums, spH.num),
          cat   |-> <<put(0), put(1), put(2)>> ]

RECURSIVE ParseEntries(_, _)
ParseEntries(acc, FNS) ==
    IF FNS = <<>> THEN acc
    ELSE ParseEntries(ParseEntry(acc, Head(FNS)), Tail(FNS))

\* Line 892: the numbers 001..TOTAL_HYMNS that are not in hNums.
MissingOf(hNums) ==
    SelectSeq([i \in 1..HYMNS_MAX |-> toDigits(i)],
              LAMBDA n : ~In(n, hNums))

\* No catalog: before the build, or when the build did not return.
NoCatalog == [ok |-> FALSE]

\* HymnsDatabase.parseHymnDatabase on the entry list FNS. Line 900 joins
\* every indexed number with its title: an indexed entry whose number is
\* the integer 0 raises TypeError there and no catalog is returned.
parseHymnDatabase(FNS) ==
    LET acc == ParseEntries(
                   [hNums |-> <<>>, cat |-> <<<< <<>>, <<>> >>,
                                              << <<>>, <<>> >>,
                                              << <<>>, <<>> >> >>], FNS)
        MISSING == MissingOf(acc.hNums)
    IN  IF \E i \in 1..3 : In(Int0, acc.cat[i][1])
        THEN NoCatalog
        ELSE [ ok      |-> TRUE,
               EN      |-> acc.cat[1],
               TL      |-> acc.cat[2],
               US      |-> acc.cat[3],
               TOTAL   |-> [ EN  |-> Len(acc.cat[1][1]),
                             TL  |-> Len(acc.cat[2][1]),
                             US  |-> Len(acc.cat[3][1]),
                             ALL |-> Len(acc.cat[1][1]) + Len(acc.cat[2][1])
                                       + Len(acc.cat[3][1]) ],
               MISSING |-> [list |-> MISSING, length |-> Len(MISSING)] ]

\* HYMNAL[i] for i = 0, 1 (EN, TL).
Cat(H, i) == IF i = 0 THEN H.EN ELSE H.TL

\* invert(i) of the KCore library on 0 and 1.
invert(i) == 1 - i

(***************************************************************************)
(* The statistics file and the class Data.                                 *)
(***************************************************************************)
\* JSON values of an entry of "DATA": an array, a number, an object.
Arr(v) == [t |-> "arr", v |-> v]
Num(n) == [t |-> "num", v |-> n]
Obj == [t |-> "obj"]

\* The keys "001".."474" of the record.
Keys == {toDigits(i) : i \in 1..HYMNS_MAX}

NoFile == [kind |-> "absent"]
Garbage == [kind |-> "garbage"]
JsonFile(doc) == [kind |-> "json", doc |-> doc]

\* Data.dump: the whole document replaces the file.
dump(data) == JsonFile(data)

\* DefaultDoc as it would be with the range one short.
DefaultDoc_short(t) ==
    [ DATECREATED |-> t,
      DATA |-> [k \in {zfill(str(i + 1), 3) : i \in 0..(HYMNS_MAX - 2)}
                   |-> Arr(<<0, 0, 0>>)] ]

\* The document Data.generateDefault builds at time t.
DefaultDoc(t) ==
    [ DATECREATED |-> t,
      DATA |-> [k \in {zfill(str(i + 1), 3) : i \in 0..(HYMNS_MAX - 1)}
                   |-> Arr(<<0, 0, 0>>)] ]

\* Data.generateDefault: the file after it.
generateDefault(t) == dump(DefaultDoc(t))

\* Data.load on an existing file F: the file after it and the document
\* returned (a file that does not parse is regenerated and read again).
load(F, t) ==
    IF F.kind = "garbage"
    THEN [file |-> generateDefault(t), doc |-> DefaultDoc(t)]
    ELSE [file |-> F, doc |-> F.doc]

\* The probes of lines 763-765 for number i: what they raise.
Probe(doc, i) ==
    IF "DATA" \notin DOMAIN doc THEN "KeyError"
    ELSE IF toDigits(i) \notin DOMAIN doc.DATA THEN "KeyError"
    ELSE LET e == doc.DATA[toDigits(i)]
         IN  CASE e.t = "obj" -> "KeyError"
               [] e.t = "num" -> "TypeError"
               [] e.t = "arr" -> IF Len(e.v) < 3 THEN "IndexError" ELSE "ok"

\* The loop of lines 762-765: the first exception raised, or "ok".
RECURSIVE ProbeFrom(_, _)
ProbeFrom(doc, i) ==
    IF i > HYMNS_MAX THEN "ok"
    ELSE IF Probe(doc, i) # "ok" THEN Probe(doc, i)
    ELSE ProbeFrom(doc, i + 1)

\* verifyContents as it would be if it repaired only the absent keys.
verifyContents_patch(F, t) ==
    LET l == load(F, t)
        out == ProbeFrom(l.doc, 1)
        D == IF "DATA" \in DOMAIN l.doc THEN l.doc.DATA ELSE <<>>
    IN  [ file   |-> IF out = "KeyError"
                     THEN dump([ DATECREATED |-> t,
                                 DATA |-> [k \in Keys |->
                                     IF k \in DOMAIN D /\ D[k].t = "arr"
                                     THEN D[k] ELSE Arr(<<0, 0, 0>>)] ])
                     ELSE l.file,
          raised |-> out \notin {"ok", "KeyError"} ]

\* Data.verifyContents: only KeyError is caught (line 766).
verifyContents(F, t) ==
    LET l == load(F, t)
        out == ProbeFrom(l.doc, 1)
    IN  [ file   |-> IF out = "KeyError" THEN generateDefault(t) ELSE l.file,
          raised |-> out \notin {"ok", "KeyError"} ]

\* Data.check: the file after it, the document stored in self.DATA, and
\* whether an exception left the method.
check(F, t) ==
    LET F1 == IF F.kind = "absent" THEN generateDefault(t) ELSE F
        v == verifyContents(F1, t)
        l == load(v.file, t)
    IN  [ file   |-> IF v.raised THEN v.file ELSE l.file,
          DATA   |-> l.doc,
          raised |-> v.raised ]

\* Update as it would be if the mapping were replaced by the one entry.
Update_only(data, key, ARRAY) ==
    [ data EXCEPT !.DATA = [k \in {key} |-> Arr(ARRAY)] ]

\* SDATA['DATA'].update({key: ARRAY})
Update(data, key, ARRAY) ==
    [ data EXCEPT !.DATA =
        [k \in DOMAIN data.DATA \cup {key} |->
            IF k = key THEN Arr(ARRAY) ELSE data.DATA[k]] ]

(***************************************************************************)
(* HymnsDatabase.getStats: the query result HymnInfo.                      *)
(***************************************************************************)
\* '' (the empty text).
Empty == <<>>

\* The attribute CURRENT_HINFO before the first query, and the value None.
Unset == [kind |-> "unset"]
None == [kind |-> "None"]

\* The default values of line 932 as a HymnInfo (lines 938-939). dbIndex is
\* <<>> for '' and <<k>> for the integer k.
Placeholder(hN) ==
    [ kind |-> "HymnInfo", title |-> Empty, num |-> hN, eqTitle |-> Empty,
      eqNum |-> Empty, cat |-> Empty, eqCat |-> Empty, dbIndex |-> <<>>,
      queries |-> 0, launches |-> 0, lastAccessed |-> 0 ]

\* BaseTitle as it would be if the scan tried TL before EN.
BaseTitle_TLfirst(H, hN) ==
    LET k == toDigits(int(hN))
    IN  IF In(k, H.TL[1]) THEN H.TL[2][index(H.TL[1], k) + 1]
        ELSE IF In(k, H.EN[1]) THEN H.EN[2][index(H.EN[1], k) + 1]
        ELSE Empty

\* Lines 942-948: the title of the first of EN, TL that holds the number.
BaseTitle(H, hN) ==
    LET k == toDigits(int(hN))
    IN  IF In(k, H.EN[1]) THEN H.EN[2][index(H.EN[1], k) + 1]
        ELSE IF In(k, H.TL[1]) THEN H.TL[2][index(H.TL[1], k) + 1]
        ELSE Empty

\* FoundIn as it would be if the scan began with TL.
FoundIn_TLfirst(H, hN) == IF In(hN, H.TL[1]) THEN 1 ELSE 0

\* Lines 951-962: the category index the scan ends with.
FoundIn(H, hN) == IF In(hN, H.EN[1]) THEN 0 ELSE 1

\* EquivalentNumber with the offset of EN used for both categories.
EquivalentNumber_up(i, hN) == toDigits(int(hN) + 1)

\* EquivalentNumber with the offsets of the two categories exchanged.
EquivalentNumber_swapped(i, hN) ==
    toDigits(int(hN) + (IF i = 1 THEN 1 ELSE -1))

\* Line 954: the number looked for in the other category.
EquivalentNumber(i, hN) == toDigits(int(hN) + (IF i = 1 THEN -1 ELSE 1))

\* HymnsDatabase.getStats(hN) on catalog H and record S: the value
\* returned and the value left in UIZ.EXEC_READY.
getStats(H, S, hNraw) ==
    LET hN == toDigitsStr(hNraw)
    IN  IF hasLetters(hN) THEN [ready |-> FALSE, info |-> None]
        ELSE IF (int(hN) > HYMNS_MAX) \/ (int(hN) <= 0)
                   \/ In(hN, H.MISSING.list)
        THEN [ready |-> FALSE, info |-> Placeholder(hN)]
        ELSE
          LET title == BaseTitle(H, hN)
              i == FoundIn(H, hN)
              other == Cat(H, invert(i))
              eq == EquivalentNumber(i, hN)
              hit == In(hN, Cat(H, i)[1]) /\ In(eq, other[1])
              idx == IF hit THEN index(other[1], eq) ELSE 0
              STS == S.DATA[hN].v
          IN  [ ready |-> title # Empty,
                info  |->
                  [ kind |-> "HymnInfo", title |-> title, num |-> hN,
                    eqTitle |-> IF hit THEN other[2][idx + 1] ELSE Empty,
                    eqNum |-> IF hit THEN other[1][idx + 1] ELSE Empty,
                    cat |-> IF i = 1 THEN CatTL ELSE CatEN,
                    eqCat |-> IF i = 1 THEN CatEN ELSE CatTL,
                    dbIndex |-> <<idx>>,
                    queries |-> STS[1], launches |-> STS[2],
                    lastAccessed |-> STS[3] ] ]

(***************************************************************************)
(* InputCore.updateDetails.                                                *)
(***************************************************************************)
\* Line 1648: the entry is not a number, and the completion stands in.
Fallback(ENTRY) ==
    IF isdigit(PySlice(ENTRY, 0, 3)) THEN int(PySlice(ENTRY, 0, 3)) = 0
    ELSE TRUE

\* What updateDetails leaves behind for the entry text ENTRY and the
\* completion CMPL (both cut to three characters) when the record is S, as
\* a record of the new values of the fields it may write.
Details(S, ENTRY, CMPL) ==
    LET hN0 == PySlice(ENTRY, 0, 3)
        fallback == Fallback(ENTRY)
        invalid == fallback
                   /\ ~(ENTRY # Empty
                        /\ ~In(PySlice(CMPL, 0, 3), HYMNAL.MISSING.list))
        hN == IF fallback THEN PySlice(CMPL, 0, 3) ELSE hN0
        r == getStats(HYMNAL, S, hN)
    IN  IF invalid
        THEN [ queried |-> FALSE, hN |-> hN0, HINFO |-> CURRENT_HINFO,
               READY |-> EXEC_READY, TIMEOUT |-> FALSE, BTN |-> FALSE ]
        ELSE [ queried |-> TRUE, hN |-> hN, HINFO |-> r.info,
               READY |-> r.ready, TIMEOUT |-> TRUE,
               BTN |-> IF r.info = None THEN BTN_LAUNCH ELSE r.ready ]

(***************************************************************************)
(* Inputs.                                                                 *)
(***************************************************************************)
File_EN001 == FileName(CatEN, <<"0", "0", "1">>, <<"A">>, PPTX)
File_TL002 == FileName(CatTL, <<"0", "0", "2">>, <<"B">>, PPTX)
File_US001 == FileName(CatUS, <<"0", "0", "1">>, <<"F">>, PPTX)

Readable(FNS) == [ok |-> TRUE, FNS |-> FNS]
\* A file that ZipFile cannot open.
Unreadable == [ok |-> FALSE, FNS |-> <<>>]

\* The packages a session starts with or changes to.
Packages ==
    { Readable(<<File_EN001, File_TL002>>),
      Readable(<<File_TL002, File_US001>>),
      Readable(<<File_TL002>>),
      Unreadable }

\* Every entry list of at most MaxFiles names of the pool, in every order;
\* the names of an archive are distinct.
AllArchives ==
    { Readable(f) :
        f \in { g \in UNION {[1..n -> Pool] : n \in 0..MaxFiles} :
                   \A i, j \in 1..Len(g) : g[i] = g[j] => i = j } }

\* Texts typed into the search box (their first three characters).
Typed ==
    {Empty, <<"a", "b", "c">>} \cup {toDigits(i) : i \in 1..(HYMNS_MAX + 1)}


\* The numbers the completer can offer for catalog H.
Suggestions(H) ==
    { H.EN[1][k] : k \in 1..Len(H.EN[1]) }
        \cup { H.TL[1][k] : k \in 1..Len(H.TL[1]) }
        \cup { H.US[1][k] : k \in 1..Len(H.US[1]) }

\* The numbers a recording can be made for (line 3122).
Keys0 == {toDigits(i) : i \in 0..HYMNS_MAX}

\* Statistics files found at startup.
EntryValues ==
    { Arr(<<0, 0, 0>>), Arr(<<1, 0, 0>>), Arr(<<2, 1, 0>>),
      Arr(<<1, 0>>), Arr(<<1, 0, 0, 0>>), Num(5), Obj }
StoreFiles ==
    {NoFile, Garbage, JsonFile([DATECREATED |-> 0])}
        \cup { JsonFile([DATECREATED |-> 0, DATA |-> d]) :
                 d \in UNION {[K -> EntryValues] : K \in SUBSET Keys} }

\* SYS.DIR_TEMP without files, and the file manager at rest.
EmptyDir == [files |-> {}, atime |-> <<>>, locked |-> {}]
Idle == [pc |-> "idle"]

\* The directories deleteOldest is called on: files 1..n with access times
\* of 1..MaxTemp, some of them open in another program.
TempDirs ==
    { [files |-> 1..n, atime |-> a, locked |-> L] :
        n \in 0..MaxTemp, a \in [1..MaxTemp -> 1..MaxTemp],
        L \in SUBSET (1..MaxTemp) }

(***************************************************************************)
(* Initial states: the process has started and __main__ has not run yet.   *)
(***************************************************************************)
InitProgram(archives, files) ==
    /\ archive \in archives
    /\ FILE_DATA \in files
    /\ writable = TRUE
    /\ HYMNAL = NoCatalog
    /\ SDB_DATA = Unset
    /\ SDATA = Unset
    /\ LNE_SEARCH = Empty
    /\ CPLTR = Empty
    /\ CURRENT_HINFO = Unset
    /\ EXEC_READY = FALSE
    /\ QUERY_TIMEOUT = FALSE
    /\ QUERY_TIMEOUT_FILL = 2
    /\ LAST_QUERY_ID = Int0
    /\ BTN_LAUNCH = FALSE
    /\ SUGGEST = {}
    /\ timer = "on"
    /\ phase = "boot"
    /\ now = 1
    /\ stale = "no"
    /\ qrun = [k \in Keys0 |-> <<>>]
    /\ fresh = FALSE
    /\ last = [op |-> "none"]

\* A session in which SYS.DIR_TEMP stays below the limit of recent files.
InitWith(archives, files) ==
    /\ InitProgram(archives, files)
    /\ temp = EmptyDir
    /\ fmn = Idle

Init == InitWith(Packages, {NoFile, Garbage})
InitCatalog == InitWith(AllArchives, {NoFile})
InitOne == InitWith({Readable(<<File_EN001, File_TL002>>)}, {NoFile})
InitStore == InitWith({Readable(<<File_EN001, File_TL002>>)}, StoreFiles)

(***************************************************************************)
(* __main__ (lines 3190-3198): build the catalog, load the statistics.     *)
(***************************************************************************)
Main ==
    /\ phase = "boot"
    /\ UNCHANGED fm
    /\ last' = [op |-> "main", file |-> FILE_DATA]
    /\ UNCHANGED <<archive, writable, now, hist, LNE_SEARCH, CPLTR,
                   CURRENT_HINFO, EXEC_READY, QUERY_TIMEOUT,
                   QUERY_TIMEOUT_FILL, LAST_QUERY_ID, BTN_LAUNCH, timer>>
    /\ IF ~archive.ok
       THEN /\ phase' = "exited"
            /\ UNCHANGED <<HYMNAL, store, SUGGEST>>
       ELSE LET H == parseHymnDatabase(archive.FNS)
                c == check(FILE_DATA, now)
            IN  IF ~H.ok
                THEN /\ phase' = "raised"
                     /\ UNCHANGED <<HYMNAL, store, SUGGEST>>
                ELSE /\ HYMNAL' = H
                     /\ FILE_DATA' = c.file
                     /\ IF c.raised
                        THEN /\ phase' = "raised"
                             /\ UNCHANGED <<SDB_DATA, SDATA, SUGGEST>>
                        ELSE /\ phase' = "running"
                             /\ SDB_DATA' = c.DATA
                             /\ SDATA' = c.DATA
                             /\ SUGGEST' = Suggestions(H)

(***************************************************************************)
(* LNE_SEARCH.textChanged -> InputCore.updateDetails() (lines 1632-1691).  *)
(***************************************************************************)
TextChanged ==
    /\ phase = "running"
    /\ UNCHANGED fm
    /\ \E e \in Typed :
       \* the completion is read only when the entry is no number
       \E c \in IF Fallback(e) THEN {Empty} \cup SUGGEST ELSE {Empty} :
         LET d == Details(SDATA, e, c)
         IN  /\ LNE_SEARCH' = e
             /\ CPLTR' = c
             /\ CURRENT_HINFO' = d.HINFO
             /\ EXEC_READY' = d.READY
             /\ QUERY_TIMEOUT' = d.TIMEOUT
             /\ BTN_LAUNCH' = d.BTN
             /\ stale' = IF d.queried THEN "no" ELSE stale
             /\ fresh' = IF e # LNE_SEARCH THEN TRUE ELSE fresh
             /\ last' = [op |-> "query", queried |-> d.queried, hN |-> d.hN]
    /\ UNCHANGED <<archive, HYMNAL, store, writable, QUERY_TIMEOUT_FILL,
                   LAST_QUERY_ID,
                   SUGGEST, timer, phase, now, qrun>>

(***************************************************************************)
(* One pass of the loop of ThreadBackground.run (lines 3121-3129).         *)
(***************************************************************************)
\* The array stored for number n in record S, <<>> when there is none.
Stored(S, n) == IF n \in DOMAIN S.DATA THEN S.DATA[n].v ELSE <<>>

\* Line 3124: the array written for a query record.
QueryArray(H) == <<H.queries + 1, H.launches, H.lastAccessed>>

\* IsNewQuery as it would be without the comparison.
IsNewQuery_always(ID, H) == TRUE

\* Line 3123: the current number is not the one recorded last.
IsNewQuery(ID, H) == ID # H.num

Tick ==
    /\ phase = "running"
    /\ UNCHANGED fm
    /\ timer = "on"
    /\ fresh' = FALSE
    /\ UNCHANGED <<archive, HYMNAL, writable, LNE_SEARCH, CPLTR,
                   CURRENT_HINFO, EXEC_READY, BTN_LAUNCH, SUGGEST, phase>>
    /\ IF ~QUERY_TIMEOUT
       THEN /\ UNCHANGED last
            /\ UNCHANGED <<FILE_DATA, SDATA, QUERY_TIMEOUT,
                           QUERY_TIMEOUT_FILL, LAST_QUERY_ID, timer, now,
                           stale, qrun>>
       ELSE IF QUERY_TIMEOUT_FILL # 0
       THEN /\ QUERY_TIMEOUT_FILL' = Max(QUERY_TIMEOUT_FILL - 1, -MaxNeg)
            /\ UNCHANGED last
            /\ UNCHANGED <<FILE_DATA, SDATA, QUERY_TIMEOUT, LAST_QUERY_ID,
                           timer, now, stale, qrun>>
       ELSE IF CURRENT_HINFO.kind # "HymnInfo"
       THEN \* AttributeError is not caught by line 3146: the thread ends
            /\ timer' = "dead"
            /\ UNCHANGED last
            /\ UNCHANGED <<FILE_DATA, SDATA, QUERY_TIMEOUT,
                           QUERY_TIMEOUT_FILL, LAST_QUERY_ID, now, stale,
                           qrun>>
       ELSE IF int(CURRENT_HINFO.num) \notin 0..HYMNS_MAX
       THEN /\ QUERY_TIMEOUT_FILL' = Max(QUERY_TIMEOUT_FILL - 1, -MaxNeg)
            /\ UNCHANGED last
            /\ UNCHANGED <<FILE_DATA, SDATA, QUERY_TIMEOUT, LAST_QUERY_ID,
                           timer, now, stale, qrun>>
       ELSE IF IsNewQuery(LAST_QUERY_ID, CURRENT_HINFO) /\ ~writable
       THEN \* open(SYS.FILE_DATA, "w") is refused at line 3125: the record
            \* in memory has the update, and the PermissionError, which
            \* line 3146 does not catch, ends the thread before line 3126
            LET n == CURRENT_HINFO.num
            IN  /\ now < MaxTime
                /\ now' = now + 1
                /\ SDATA' = Update(SDATA, n, QueryArray(CURRENT_HINFO))
                /\ timer' = "dead"
                /\ stale' = "timer"
                /\ qrun' = [qrun EXCEPT ![n] = Stored(SDATA, n)]
                /\ last' = [op |-> "write failed", by |-> "timer",
                            num |-> n,
                            array |-> QueryArray(CURRENT_HINFO)]
                /\ UNCHANGED <<FILE_DATA, QUERY_TIMEOUT,
                               QUERY_TIMEOUT_FILL, LAST_QUERY_ID>>
       ELSE /\ QUERY_TIMEOUT' = FALSE
            /\ QUERY_TIMEOUT_FILL' = 2
            /\ UNCHANGED timer
            /\ IF IsNewQuery(LAST_QUERY_ID, CURRENT_HINFO)
               THEN LET n == CURRENT_HINFO.num
                        S == Update(SDATA, n, QueryArray(CURRENT_HINFO))
                    IN  /\ now < MaxTime
                        /\ SDATA' = S
                        /\ FILE_DATA' = dump(S)
                        /\ LAST_QUERY_ID' = n
                        /\ now' = now + 1
                        /\ stale' = "timer"
                        /\ qrun' = [qrun EXCEPT ![n] = Stored(SDATA, n)]
                        /\ last' = [op |-> "tick", num |-> n, at |-> now,
                                    pre |-> Stored(SDATA, n),
                                    base |-> qrun[n]]
               ELSE /\ UNCHANGED last
                    /\ UNCHANGED <<FILE_DATA, SDATA, LAST_QUERY_ID, now,
                                   stale, qrun>>
    \* SDATA and SDB.DATA are one object (line 3198): both see the update
    /\ SDB_DATA' = SDATA'

(***************************************************************************)
(* BTN_LAUNCH.clicked -> InputCore.executeFile (lines 1744-1785).          *)
(***************************************************************************)
\* Line 1777: the array written for a launch record at time t.
LaunchArray(H, t) == <<H.queries + 1, H.launches + 1, t>>

\* Lines 1757-1764: some entry's title contains the current title.
FileFound(FNS, title) ==
    \E k \in 1..Len(FNS) : IsSubstring(title, splitHymn(FNS[k]).title)

executeFile ==
    /\ phase = "running"
    /\ UNCHANGED fm
    /\ BTN_LAUNCH
    /\ BTN_LAUNCH' = FALSE
    /\ UNCHANGED <<archive, HYMNAL, writable, LNE_SEARCH, CPLTR,
                   QUERY_TIMEOUT_FILL, LAST_QUERY_ID, SUGGEST, timer, phase,
                   fresh>>
    /\ IF ~FileFound(archive.FNS, CURRENT_HINFO.title)
       THEN \* FILEDIR is unbound at line 1770: the handler raises
            /\ last' = [op |-> "launch failed"]
            /\ UNCHANGED <<FILE_DATA, SDATA, CURRENT_HINFO, EXEC_READY,
                           QUERY_TIMEOUT, now, stale, qrun>>
       ELSE IF ~writable
       THEN \* open(SYS.FILE_DATA, "w") is refused at line 1778: the record
            \* in memory has the update and the handler ends there
            LET n == CURRENT_HINFO.num
            IN  /\ now < MaxTime
                /\ now' = now + 1
                /\ SDATA' = Update(SDATA, n, LaunchArray(CURRENT_HINFO, now))
                /\ qrun' = [qrun EXCEPT ![n] = <<>>]
                /\ stale' = "launch"
                /\ last' = [op |-> "write failed", by |-> "launch",
                            num |-> n,
                            array |-> LaunchArray(CURRENT_HINFO, now)]
                /\ UNCHANGED <<FILE_DATA, CURRENT_HINFO, EXEC_READY,
                               QUERY_TIMEOUT>>
       ELSE LET n == CURRENT_HINFO.num
                S == Update(SDATA, n, LaunchArray(CURRENT_HINFO, now))
                d == Details(S, LNE_SEARCH, CPLTR)
            IN  /\ now < MaxTime
                /\ SDATA' = S
                /\ FILE_DATA' = dump(S)
                /\ now' = now + 1
                /\ CURRENT_HINFO' = d.HINFO
                /\ EXEC_READY' = d.READY
                /\ QUERY_TIMEOUT' = d.TIMEOUT
                /\ qrun' = [qrun EXCEPT ![n] = <<>>]
                /\ stale' = IF d.queried THEN "no" ELSE "launch"
                /\ last' = [op |-> "launch", num |-> n, at |-> now,
                            pre |-> Stored(SDATA, n), stale |-> stale]
    /\ SDB_DATA' = SDATA'

(***************************************************************************)
(* "Reset Stats" confirmed: QWGT_SETTINGS.triggerButton, lines 2347-2352.  *)
(***************************************************************************)
Reset ==
    /\ phase = "running"
    /\ UNCHANGED fm
    /\ FILE_DATA.kind # "absent"
    /\ IF ~writable
       THEN \* os.remove is refused at line 2347: the handler ends there
            /\ last' = [op |-> "reset failed"]
            /\ UNCHANGED <<store, stale, qrun>>
       ELSE /\ LET c == check(NoFile, now)
               IN  /\ FILE_DATA' = c.file
                   /\ SDB_DATA' = c.DATA
                   /\ SDATA' = c.DATA
            /\ qrun' = [k \in Keys0 |-> <<>>]
            /\ stale' = IF CURRENT_HINFO.kind = "HymnInfo" THEN "reset"
                        ELSE stale
            /\ last' = [op |-> "reset",
                        cleared |-> \E k \in Keys :
                                       Stored(SDATA, k) # <<0, 0, 0>>]
    /\ UNCHANGED <<archive, HYMNAL, writable, ui, phase, now, fresh>>

(***************************************************************************)
(* Data.getStats (lines 797-811), the aggregate that                       *)
(* QWGT_SETTINGS.Statistics.updateWidget asks for (line 2643).             *)
(***************************************************************************)
\* Line 802: the list STATS read from document doc.
StatsList(doc) == [i \in 1..HYMNS_MAX |-> doc.DATA[toDigits(i)].v]

\* sum([STATS[i][f] for i in range(len(STATS))]) over the first n entries.
RECURSIVE SumField(_, _, _)
SumField(STATS, f, n) ==
    IF n = 0 THEN 0 ELSE SumField(STATS, f, n - 1) + STATS[n][f]

\* max([STATS[i][f] ...]) and min([STATS[i][f] ...]).
MaxField(STATS, f) ==
    CHOOSE x \in {STATS[i][f] : i \in 1..Len(STATS)} :
        \A i \in 1..Len(STATS) : STATS[i][f] <= x
MinField(STATS, f) ==
    CHOOSE x \in {STATS[i][f] : i \in 1..Len(STATS)} :
        \A i \in 1..Len(STATS) : STATS[i][f] >= x

\* Totals as they would be if the sums left out the last entry.
Totals_short(doc) ==
    LET STATS == StatsList(doc)
    IN  [ kind |-> "STATS",
          queries |-> SumField(STATS, 1, Len(STATS) - 1),
          launches |-> SumField(STATS, 2, Len(STATS) - 1),
          newest |-> MaxField(STATS, 3),
          oldest |-> MinField(STATS, 3) ]

\* Lines 806-811: the named tuple returned for document doc.
Totals(doc) ==
    LET STATS == StatsList(doc)
    IN  [ kind |-> "STATS",
          queries |-> SumField(STATS, 1, Len(STATS)),
          launches |-> SumField(STATS, 2, Len(STATS)),
          newest |-> MaxField(STATS, 3),
          oldest |-> MinField(STATS, 3) ]

\* Line 802 raises KeyError on document doc.
AggregateKeyError(doc) ==
    \/ "DATA" \notin DOMAIN doc
    \/ \E i \in 1..HYMNS_MAX : toDigits(i) \notin DOMAIN doc.DATA

Aggregate ==
    /\ phase = "running"
    /\ UNCHANGED fm
    /\ FILE_DATA.kind # "absent"
    /\ LET l == load(FILE_DATA, now)
       IN  IF AggregateKeyError(l.doc)
           THEN \* lines 803-805: SDB.check() loads a new SDB.DATA; the global
                \* SDATA is not rebound, and nothing is returned
                LET c == check(l.file, now)
                IN  /\ FILE_DATA' = c.file
                    /\ SDB_DATA' = c.DATA
                    /\ last' = [op |-> "aggregate", result |-> None]
           ELSE /\ FILE_DATA' = l.file
                /\ UNCHANGED SDB_DATA
                /\ last' = [op |-> "aggregate", result |-> Totals(l.doc)]
    /\ UNCHANGED <<archive, HYMNAL, SDATA, writable, ui, phase, now, hist>>

(***************************************************************************)
(* The environment: the entry of one number is deleted from data.json      *)
(* while the program runs.                                                 *)
(***************************************************************************)
Tamper ==
    /\ phase = "running"
    /\ UNCHANGED fm
    /\ FILE_DATA.kind = "json"
    /\ \E k \in Keys \cap DOMAIN FILE_DATA.doc.DATA :
         FILE_DATA' = JsonFile([FILE_DATA.doc EXCEPT
             !.DATA = [j \in (DOMAIN FILE_DATA.doc.DATA) \ {k}
                          |-> FILE_DATA.doc.DATA[j]]])
    /\ UNCHANGED <<archive, HYMNAL, SDB_DATA, SDATA, writable, ui, phase,
                   now, hist, last>>

(***************************************************************************)
(* FileManager.deleteOldest (lines 1850-1857).                             *)
(***************************************************************************)
\* Line 1854: threshold if not deleteAll else 0.
Limit(threshold, deleteAll) == IF deleteAll THEN 0 ELSE threshold

\* min(fileList(), key=os.path.getatime): a listed file of least access
\* time (the first of them in the order of os.listdir).
Oldest(d) == {f \in d.files : \A g \in d.files : d.atime[f] <= d.atime[g]}

\* The call deleteOldest(fileList, threshold, deleteAll).
deleteOldest ==
    /\ fmn.pc = "idle"
    /\ \E threshold \in 0..MaxThreshold, deleteAll \in BOOLEAN :
         fmn' = [pc |-> "loop", threshold |-> threshold,
                 deleteAll |-> deleteAll, file |-> 0,
                 outcome |-> "none"]
    /\ UNCHANGED <<archive, HYMNAL, store, writable, ui, phase, now, hist,
                   last, temp>>

\* The loop condition of line 1854 and, when it holds, the choice of
\* min(fileList(), key=os.path.getatime) at line 1855.
deleteOldestLoop ==
    /\ fmn.pc = "loop"
    /\ IF Cardinality(temp.files) > Limit(fmn.threshold, fmn.deleteAll)
       THEN \E f \in Oldest(temp) :
              fmn' = [fmn EXCEPT !.pc = "remove", !.file = f]
       ELSE fmn' = [fmn EXCEPT !.pc = "returned"]
    /\ UNCHANGED <<archive, HYMNAL, store, writable, ui, phase, now, hist,
                   last, temp>>

\* os.remove of line 1855 and the handlers of lines 1856-1857.
deleteOldestRemove ==
    /\ fmn.pc = "remove"
    /\ IF fmn.file \notin temp.files
       THEN \* FileNotFoundError: ignored
            /\ fmn' = [fmn EXCEPT !.pc = "loop",
                                  !.outcome = "FileNotFoundError"]
            /\ UNCHANGED temp
       ELSE IF fmn.file \in temp.locked
       THEN \* PermissionError: logged, the file stays
            /\ fmn' = [fmn EXCEPT !.pc = "loop",
                                  !.outcome = "PermissionError"]
            /\ UNCHANGED temp
       ELSE /\ fmn' = [fmn EXCEPT !.pc = "loop", !.outcome = "removed"]
            /\ temp' = [temp EXCEPT !.files = @ \ {fmn.file}]
    /\ UNCHANGED <<archive, HYMNAL, store, writable, ui, phase, now, hist,
                   last>>

\* The environment: another process removes a file of SYS.DIR_TEMP.
Vanish ==
    /\ \E f \in temp.files : temp' = [temp EXCEPT !.files = @ \ {f}]
    /\ UNCHANGED <<archive, HYMNAL, store, writable, ui, phase, now, hist,
                   last, fmn>>

(***************************************************************************)
(* The environment: the permissions of SYS.FILE_DATA are changed, so that  *)
(* open(SYS.FILE_DATA, "w") of Data.dump (line 778) is refused from now on.*)
(***************************************************************************)
Protect ==
    /\ phase = "running"
    /\ UNCHANGED fm
    /\ writable
    /\ writable' = FALSE
    /\ UNCHANGED <<archive, HYMNAL, store, ui, phase, now, hist, last>>

(***************************************************************************)
(* HymnsDatabase.updateDatabase (lines 994-1003).                          *)
(***************************************************************************)
\* updateDatabase as it would be if an unreadable package were skipped.
updateDatabase_skip ==
    /\ phase = "running"
    /\ UNCHANGED fm
    /\ \E package \in Packages :
         /\ archive' = package
         /\ IF ~package.ok
            THEN UNCHANGED <<HYMNAL, phase>>
            ELSE LET H == parseHymnDatabase(package.FNS)
                 IN  /\ HYMNAL' = IF H.ok THEN H ELSE HYMNAL
                     /\ UNCHANGED phase
    /\ stale' = IF CURRENT_HINFO.kind = "HymnInfo" /\ HYMNAL' # HYMNAL
                THEN "catalog" ELSE stale
    /\ last' = [op |-> "update"]
    /\ UNCHANGED <<store, writable, ui, now, qrun, fresh>>

updateDatabase ==
    /\ phase = "running"
    /\ UNCHANGED fm
    /\ \E package \in Packages :
         /\ archive' = package
         /\ IF ~package.ok
            THEN /\ phase' = "exited"
                 /\ UNCHANGED HYMNAL
            ELSE LET H == parseHymnDatabase(package.FNS)
                 IN  /\ HYMNAL' = IF H.ok THEN H ELSE HYMNAL
                     /\ UNCHANGED phase
    \* CURRENT_HINFO is left as it is: it now comes from a replaced catalog
    /\ stale' = IF CURRENT_HINFO.kind = "HymnInfo" /\ HYMNAL' # HYMNAL
                THEN "catalog" ELSE stale
    /\ last' = [op |-> "update"]
    /\ UNCHANGED <<store, writable, ui, now, qrun, fresh>>

(***************************************************************************)
(* Specifications.                                                         *)
(***************************************************************************)
\* A session on one package: queries, the timer, launches and resets.
Next == Main \/ TextChanged \/ Tick \/ executeFile \/ Reset

Spec == Init /\ [][Next]_vars

\* A session whose package is changed: queries, launches, package changes.
NextReload == Main \/ TextChanged \/ executeFile \/ updateDatabase

SpecReload == Init /\ [][NextReload]_vars

\* Startup over every archive of the pool, then queries.
NextCatalog == Main \/ TextChanged

SpecCatalog == InitCatalog /\ [][NextCatalog]_vars

\* A session during which the permissions of the statistics file change.
NextWrite == Main \/ TextChanged \/ Tick \/ executeFile \/ Protect

SpecWrite == InitOne /\ [][NextWrite]_vars

\* A session in which the aggregate is asked for.
NextAggregate ==
    Main \/ TextChanged \/ Tick \/ executeFile \/ Reset \/ Aggregate

SpecAggregate == InitOne /\ [][NextAggregate]_vars

\* A session in which data.json loses entries and the aggregate is asked for.
NextTamper == Main \/ TextChanged \/ Tamper \/ Aggregate

SpecTamper == InitOne /\ [][NextTamper]_vars

\* The file manager on a directory of recent files; the loop of
\* deleteOldest runs on without being suspended for ever.
InitFiles ==
    /\ InitProgram({Readable(<<File_EN001, File_TL002>>)}, {NoFile})
    /\ temp \in TempDirs
    /\ fmn = Idle

NextFiles ==
    deleteOldest \/ deleteOldestLoop \/ deleteOldestRemove \/ Vanish

SpecFiles ==
    /\ InitFiles
    /\ [][NextFiles]_vars
    /\ WF_vars(deleteOldestLoop \/ deleteOldestRemove)

\* A session of queries in which the timer thread is scheduled again and
\* again (its loop sleeps one second per pass, line 3143).
NextTimer == Main \/ TextChanged \/ Tick

SpecTimer == InitOne /\ [][NextTimer]_vars /\ WF_vars(Tick)

\* Startup over every statistics file, then resets.
NextStore == Main \/ Reset

SpecStore == InitStore /\ [][NextStore]_vars

(***************************************************************************)
(* Properties.                                                             *)
(***************************************************************************)
\* The all-zero record over 001..HYMNS_MAX.
ZeroRecord == [k \in Keys |-> Arr(<<0, 0, 0>>)]

\* n is in the number sequence of EN, TL or US of catalog H.
InSomeCategory(H, n) == In(n, H.EN[1]) \/ In(n, H.TL[1]) \/ In(n, H.US[1])

\* The query result in CURRENT_HINFO was computed by the last handler, for
\* the catalog and the record as they are now.
FreshResult ==
    /\ last.op = "query"
    /\ last.queried
    /\ CURRENT_HINFO.kind = "HymnInfo"

\* C1 (SpecCatalog): in every catalog parseHymnDatabase builds, every number
\* of 001..HYMNS_MAX is in exactly one of: the number sequence of some
\* category, MISSING.list.
C1_Partition ==
    HYMNAL.ok =>
        \A i \in 1..HYMNS_MAX :
            InSomeCategory(HYMNAL, toDigits(i))
                # In(toDigits(i), HYMNAL.MISSING.list)

\* C2 (Spec): every recording (a query record of the timer, a launch record
\* of executeFile) leaves queries one above the value the record held when
\* the recording was made, and launches one above it for a launch and equal
\* to it for a query record.
C2_RecordingAddsToStored ==
    (last.op \in {"tick", "launch"} /\ last.pre # <<>>) =>
        /\ Stored(SDATA, last.num)[1] = last.pre[1] + 1
        /\ Stored(SDATA, last.num)[2] =
               last.pre[2] + (IF last.op = "launch" THEN 1 ELSE 0)

\* C3 (Spec): the UI thread never writes back, in a launch record, counters
\* it read before the timer thread wrote the entry of the same number.
C3_NoStaleWriteBack == last.op = "launch" => last.stale # "timer"

\* C4 (Spec): after the second of two consecutive query-only recordings of a
\* number, its entry holds queries two above the value before the first,
\* the same launches, and the time of the second recording as lastAccessed.
C4_TwoQueryRecordings ==
    (last.op = "tick" /\ last.base # <<>>) =>
        Stored(SDATA, last.num)
            = <<last.base[1] + 2, last.base[2], last.at>>

\* The statistics file F parses, lacks the key of some number of
\* 001..HYMNS_MAX, and every entry it has is an array of three numbers.
LacksAKey(F) ==
    /\ F.kind = "json"
    /\ "DATA" \in DOMAIN F.doc
    /\ \E k \in Keys : k \notin DOMAIN F.doc.DATA
    /\ \A k \in DOMAIN F.doc.DATA :
         F.doc.DATA[k].t = "arr" /\ Len(F.doc.DATA[k].v) = 3

\* C5 (SpecStore): loading a statistics file that lacks the key of a number
\* replaces the whole document: the record in memory and the file both map
\* every number of 001..HYMNS_MAX to [0,0,0].
C5_MissingKeyRegeneratesAll ==
    (last.op = "main" /\ LacksAKey(last.file)) =>
        /\ phase = "running"
        /\ SDATA.DATA = ZeroRecord
        /\ FILE_DATA.kind = "json"
        /\ FILE_DATA.doc.DATA = ZeroRecord

\* C5, witness: a file that lacked a key and held a non-zero entry was
\* loaded, and that entry is [0,0,0] now.
C5_Witness ==
    /\ last.op = "main"
    /\ LacksAKey(last.file)
    /\ phase = "running"
    /\ \E k \in DOMAIN last.file.doc.DATA :
         /\ last.file.doc.DATA[k] = Arr(<<2, 1, 0>>)
         /\ SDATA.DATA[k] = Arr(<<0, 0, 0>>)

\* The statistics file F is missing, does not parse, or has for some number
\* of 001..HYMNS_MAX an entry that is not an array of three numbers.
Corrupt(F) ==
    \/ F.kind \in {"absent", "garbage"}
    \/ /\ F.kind = "json"
       /\ "DATA" \in DOMAIN F.doc
       /\ \E k \in Keys \cap DOMAIN F.doc.DATA :
            ~(F.doc.DATA[k].t = "arr" /\ Len(F.doc.DATA[k].v) = 3)

\* C6 (SpecStore): loading a missing, unparsable or malformed statistics
\* file ends with the all-zero record in memory and in the file, and no
\* exception leaves the store.
C6_CorruptLoadsFresh ==
    (last.op = "main" /\ Corrupt(last.file)) =>
        /\ phase = "running"
        /\ SDATA.DATA = ZeroRecord
        /\ FILE_DATA.kind = "json"
        /\ FILE_DATA.doc.DATA = ZeroRecord

\* C7 (SpecStore): after a reset, loading the file yields a record that maps
\* every number of 001..HYMNS_MAX to [0,0,0], and so does the record in use.
C7_ResetThenLoadAllZero ==
    last.op = "reset" =>
        /\ FILE_DATA.kind = "json"
        /\ load(FILE_DATA, now).doc.DATA = ZeroRecord
        /\ SDATA.DATA = ZeroRecord

\* C7, witness: a record with a non-zero entry was reset.
C7_Witness ==
    /\ last.op = "reset"
    /\ last.cleared
    /\ SDATA.DATA = ZeroRecord

\* C8 (SpecReload): EXEC_READY is never true while the number of the current
\* query result is in MISSING.list of the current catalog.
C8_NeverReadyForMissing ==
    (phase = "running" /\ EXEC_READY /\ CURRENT_HINFO.kind = "HymnInfo") =>
        ~In(CURRENT_HINFO.num, HYMNAL.MISSING.list)

\* C9 as claimed (SpecCatalog): an equivalent found for a number of EN is
\* number - 1, and one found for a number of TL is number + 1.
C9_Original ==
    (FreshResult /\ CURRENT_HINFO.eqNum # Empty) =>
        CURRENT_HINFO.eqNum =
            toDigits(int(CURRENT_HINFO.num)
                        + (IF CURRENT_HINFO.cat = CatEN THEN -1 ELSE 1))

\* C9 as amended (SpecCatalog): for a number found in EN the number looked
\* for in TL is number + 1, and for a number found in TL only it is
\* number - 1, as three digits: the result carries that number when the
\* other category has it and no equivalent number when it has not.
C9_Amended ==
    (FreshResult /\ CURRENT_HINFO.title # Empty) =>
        LET n == CURRENT_HINFO.num
            inEN == In(n, HYMNAL.EN[1])
            target == IF inEN THEN toDigits(int(n) + 1)
                      ELSE toDigits(int(n) - 1)
            other == IF inEN THEN HYMNAL.TL[1] ELSE HYMNAL.EN[1]
        IN  /\ Len(target) = 3
            /\ CURRENT_HINFO.cat = (IF inEN THEN CatEN ELSE CatTL)
            /\ CURRENT_HINFO.eqNum = (IF In(target, other) THEN target
                                      ELSE Empty)

\* C9, witness: a number found in TL only was resolved to number - 1 in EN.
C9_Witness ==
    /\ FreshResult
    /\ CURRENT_HINFO.cat = CatTL
    /\ CURRENT_HINFO.num = <<"0", "0", "2">>
    /\ CURRENT_HINFO.eqNum = <<"0", "0", "1">>

\* C10 as claimed (SpecCatalog): when n is indexed in EN and n + 1 is
\* indexed in TL with title T, resolving n returns EN, TL, n + 1 and T.
C10_Original ==
    FreshResult =>
        \A k \in 1..Len(HYMNAL.TL[1]) :
            ( /\ In(CURRENT_HINFO.num, HYMNAL.EN[1])
              /\ HYMNAL.TL[1][k] = toDigits(int(CURRENT_HINFO.num) + 1) )
            => /\ CURRENT_HINFO.cat = CatEN
               /\ CURRENT_HINFO.eqCat = CatTL
               /\ CURRENT_HINFO.eqNum = toDigits(int(CURRENT_HINFO.num) + 1)
               /\ CURRENT_HINFO.eqTitle = HYMNAL.TL[2][k]

\* C10 as amended (SpecCatalog): when n of 001..HYMNS_MAX is indexed in EN
\* and n + 1 is indexed in TL, resolving n returns EN, TL, n + 1 and the
\* title of the first entry of TL that carries n + 1.
C10_Amended ==
    FreshResult =>
        \A k \in 1..Len(HYMNAL.TL[1]) :
            ( /\ In(CURRENT_HINFO.num, HYMNAL.EN[1])
              /\ int(CURRENT_HINFO.num) \in 1..HYMNS_MAX
              /\ HYMNAL.TL[1][k] = toDigits(int(CURRENT_HINFO.num) + 1)
              /\ \A m \in 1..(k - 1) : HYMNAL.TL[1][m] # HYMNAL.TL[1][k] )
            => /\ CURRENT_HINFO.cat = CatEN
               /\ CURRENT_HINFO.eqCat = CatTL
               /\ CURRENT_HINFO.eqNum = toDigits(int(CURRENT_HINFO.num) + 1)
               /\ CURRENT_HINFO.eqTitle = HYMNAL.TL[2][k]

\* C10, witness: 001 of EN was resolved against a TL that carries 002 twice,
\* and the result has the title of the first of them.
C10_Witness ==
    /\ FreshResult
    /\ CURRENT_HINFO.num = <<"0", "0", "1">>
    /\ CURRENT_HINFO.cat = CatEN
    /\ HYMNAL.TL = << << <<"0", "0", "2">>, <<"0", "0", "2">> >>,
                      << <<"D">>, <<"B">> >> >>
    /\ CURRENT_HINFO.eqTitle = <<"D">>

\* The title at the first position of category C (numbers, titles) that
\* carries number n.
FirstTitle(C, n) ==
    C[2][CHOOSE k \in 1..Len(C[1]) :
            C[1][k] = n /\ \A m \in 1..(k - 1) : C[1][m] # n]

\* C11 as claimed (SpecCatalog): resolving a number indexed in EN reports
\* EN and its EN title; resolving a number indexed in TL and not in EN
\* reports TL and its TL title.
C11_Original ==
    FreshResult =>
        LET n == CURRENT_HINFO.num
        IN  /\ In(n, HYMNAL.EN[1]) =>
                 /\ CURRENT_HINFO.cat = CatEN
                 /\ CURRENT_HINFO.title = FirstTitle(HYMNAL.EN, n)
            /\ (~In(n, HYMNAL.EN[1]) /\ In(n, HYMNAL.TL[1])) =>
                 /\ CURRENT_HINFO.cat = CatTL
                 /\ CURRENT_HINFO.title = FirstTitle(HYMNAL.TL, n)

\* C11 as amended (SpecCatalog): the same for a number of 001..HYMNS_MAX.
C11_Amended ==
    (FreshResult /\ int(CURRENT_HINFO.num) \in 1..HYMNS_MAX) =>
        LET n == CURRENT_HINFO.num
        IN  /\ In(n, HYMNAL.EN[1]) =>
                 /\ CURRENT_HINFO.cat = CatEN
                 /\ CURRENT_HINFO.title = FirstTitle(HYMNAL.EN, n)
            /\ (~In(n, HYMNAL.EN[1]) /\ In(n, HYMNAL.TL[1])) =>
                 /\ CURRENT_HINFO.cat = CatTL
                 /\ CURRENT_HINFO.title = FirstTitle(HYMNAL.TL, n)

\* C11, witness: 002, indexed in EN and in TL under different titles, was
\* resolved to EN and the EN title.
C11_Witness ==
    /\ FreshResult
    /\ CURRENT_HINFO.num = <<"0", "0", "2">>
    /\ In(CURRENT_HINFO.num, HYMNAL.EN[1])
    /\ In(CURRENT_HINFO.num, HYMNAL.TL[1])
    /\ CURRENT_HINFO.cat = CatEN
    /\ CURRENT_HINFO.title = <<"E">>

\* C12 (SpecCatalog): resolving a number of 001..HYMNS_MAX that is not in
\* MISSING.list and is indexed in neither EN nor TL returns a result whose
\* title, category, equivalent category, equivalent title and equivalent
\* number are all empty.
C12_AllPlaceholder ==
    ( /\ FreshResult
      /\ int(CURRENT_HINFO.num) \in 1..HYMNS_MAX
      /\ ~In(CURRENT_HINFO.num, HYMNAL.MISSING.list)
      /\ ~In(CURRENT_HINFO.num, HYMNAL.EN[1])
      /\ ~In(CURRENT_HINFO.num, HYMNAL.TL[1]) )
    => /\ CURRENT_HINFO.title = Empty
       /\ CURRENT_HINFO.cat = Empty
       /\ CURRENT_HINFO.eqCat = Empty
       /\ CURRENT_HINFO.eqTitle = Empty
       /\ CURRENT_HINFO.eqNum = Empty

\* C13 (SpecCatalog): when a number of 001..HYMNS_MAX is found in EN, or in
\* TL only, and its offset target is not in the other category, the result
\* carries the found title and category, and its equivalent title,
\* equivalent number and equivalence index are empty.
C13_NoEquivalentLeftEmpty ==
    ( /\ FreshResult
      /\ int(CURRENT_HINFO.num) \in 1..HYMNS_MAX
      /\ \/ /\ In(CURRENT_HINFO.num, HYMNAL.EN[1])
            /\ ~In(toDigits(int(CURRENT_HINFO.num) + 1), HYMNAL.TL[1])
         \/ /\ ~In(CURRENT_HINFO.num, HYMNAL.EN[1])
            /\ In(CURRENT_HINFO.num, HYMNAL.TL[1])
            /\ ~In(toDigits(int(CURRENT_HINFO.num) - 1), HYMNAL.EN[1]) )
    => /\ CURRENT_HINFO.title # Empty
       /\ CURRENT_HINFO.cat =
              (IF In(CURRENT_HINFO.num, HYMNAL.EN[1]) THEN CatEN ELSE CatTL)
       /\ CURRENT_HINFO.eqTitle = Empty
       /\ CURRENT_HINFO.eqNum = Empty
       /\ CURRENT_HINFO.dbIndex = <<>>

\* C14 (Spec): after a query whose text starts with letters while the
\* completer offers nothing, readiness is false, no query record is
\* scheduled (QUERY_TIMEOUT is false), and the current HymnInfo, if there is
\* one, has every field empty.
C14_NonNumericNotReady ==
    ( /\ last.op = "query"
      /\ LNE_SEARCH = <<"a", "b", "c">>
      /\ CPLTR = Empty )
    => /\ ~EXEC_READY
       /\ ~QUERY_TIMEOUT
       /\ CURRENT_HINFO.kind = "HymnInfo" =>
            /\ CURRENT_HINFO.num = Empty
            /\ CURRENT_HINFO.title = Empty
            /\ CURRENT_HINFO.cat = Empty
            /\ CURRENT_HINFO.eqCat = Empty
            /\ CURRENT_HINFO.eqTitle = Empty
            /\ CURRENT_HINFO.eqNum = Empty

\* C15 (SpecReload): no launch record is written from a HymnInfo that was
\* computed from a catalog replaced since by updateDatabase.
C15_NoLaunchFromReplacedCatalog ==
    last.op = "launch" => last.stale # "catalog"

\* C16 (SpecWrite): when the write of a recording is refused, the record in
\* memory keeps the update, the session goes on and the timer thread keeps
\* running.
C16_WriteFailureNotFatal ==
    last.op = "write failed" =>
        /\ Stored(SDATA, last.num) = last.array
        /\ phase = "running"
        /\ timer = "on"

\* C17 (SpecTamper): every request for the aggregate returns totals, also
\* when an entry of 001..HYMNS_MAX is absent from the file.
C17_AggregateAlwaysReturned ==
    last.op = "aggregate" => last.result.kind = "STATS"

\* The sum of field f over the entries 001..HYMNS_MAX of the record SDATA.
RECURSIVE SumOfRecord(_, _)
SumOfRecord(f, n) ==
    IF n = 0 THEN 0
    ELSE SumOfRecord(f, n - 1) + Stored(SDATA, toDigits(n))[f]

\* C18 (SpecAggregate): after any recordings and resets, the aggregate
\* returned is, over the entries 001..HYMNS_MAX of the record SDATA that
\* getStats reads, the sum of queries, the sum of launches, and the
\* largest and the smallest lastAccessed.
C18_AggregateOfRecord ==
    last.op = "aggregate" =>
        /\ last.result.kind = "STATS"
        /\ last.result.queries = SumOfRecord(1, HYMNS_MAX)
        /\ last.result.launches = SumOfRecord(2, HYMNS_MAX)
        /\ \E k \in Keys : last.result.newest = Stored(SDATA, k)[3]
        /\ \A k \in Keys : last.result.newest >= Stored(SDATA, k)[3]
        /\ \E k \in Keys : last.result.oldest = Stored(SDATA, k)[3]
        /\ \A k \in Keys : last.result.oldest <= Stored(SDATA, k)[3]

\* C18, witness: an aggregate was returned over a record in which two
\* numbers have queries and one has a launch.
C18_Witness ==
    /\ last.op = "aggregate"
    /\ last.result.kind = "STATS"
    /\ \A k \in Keys : Stored(SDATA, k)[1] > 0
    /\ \E k \in Keys : Stored(SDATA, k)[2] > 0
    /\ last.result.queries >= 2
    /\ last.result.launches >= 1

\* The entry name e carries the category code c and the extension pptx.
CodeAndPptx(e, c) ==
    /\ Len(e) >= 5
    /\ SubSeq(e, 1, 2) = c
    /\ SubSeq(e, Len(e) - 4, Len(e)) = <<".", "p", "p", "t", "x">>

\* The sequences of a built catalog, by category 1..3 (EN, TL, US).
CatalogSeqs == <<HYMNAL.EN, HYMNAL.TL, HYMNAL.US>>

\* C19 (SpecCatalog): in a built catalog, each category EN, TL, US holds
\* in its number sequence and in its title sequence exactly one element
\* per archive entry that carries the code of that category and the
\* extension pptx: such an entry is appended, and no other entry is.
C19_AppendedIffCodeAndPptx ==
    (phase = "running" /\ HYMNAL.ok) =>
        \A i \in 1..3 :
            LET hits == {k \in 1..Len(archive.FNS) :
                            CodeAndPptx(archive.FNS[k], CATS[i])}
            IN  /\ Len(CatalogSeqs[i][1]) = Cardinality(hits)
                /\ Len(CatalogSeqs[i][2]) = Cardinality(hits)

\* C19, witness: a catalog built from an archive with an entry that is
\* indexed, an entry of a known category that is not a pptx, and an entry
\* whose code is no category.
C19_Witness ==
    /\ phase = "running" /\ HYMNAL.ok
    /\ \E k \in 1..Len(archive.FNS) :
         \E i \in 1..3 : CodeAndPptx(archive.FNS[k], CATS[i])
    /\ \E k \in 1..Len(archive.FNS) :
         /\ SubSeq(archive.FNS[k], 1, 2) = CatEN
         /\ ~CodeAndPptx(archive.FNS[k], CatEN)
    /\ \E k \in 1..Len(archive.FNS) :
         \A i \in 1..3 : SubSeq(archive.FNS[k], 1, 2) # CATS[i]

\* C20 (SpecCatalog): in every built catalog, the number sequence and the
\* title sequence of a category have the same length, and there is an
\* order-preserving assignment of their positions to archive entries of
\* that category such that the number and the title at a position are the
\* number and the title of the entry assigned to it.
C20_NumbersAndTitlesAligned ==
    (phase = "running" /\ HYMNAL.ok) =>
        \A i \in 1..3 :
            LET nums == CatalogSeqs[i][1]
                titles == CatalogSeqs[i][2]
            IN  /\ Len(nums) = Len(titles)
                /\ \E p \in [1..Len(nums) -> 1..Len(archive.FNS)] :
                     /\ \A a, b \in 1..Len(nums) : a < b => p[a] < p[b]
                     /\ \A j \in 1..Len(nums) :
                          LET e == archive.FNS[p[j]]
                          IN  /\ Len(e) >= 7
                              /\ SubSeq(e, 1, 2) = CATS[i]
                              /\ nums[j] = SubSeq(e, 4, 6)
                              /\ titles[j] = SubSeq(e, 8, Len(e) - 5)

\* C20, witness: a catalog with a category of two entries of different
\* titles, which an entry outside the category separates in the archive.
C20_Witness ==
    /\ phase = "running" /\ HYMNAL.ok
    /\ Len(archive.FNS) = 3
    /\ \E i \in 1..3 :
         /\ Len(CatalogSeqs[i][1]) = 2
         /\ CatalogSeqs[i][2][1] # CatalogSeqs[i][2][2]
         /\ SubSeq(archive.FNS[2], 1, 2) # CATS[i]

\* C21 (SpecReload): whenever queries can be served (the session runs), the
\* archive in use could be opened and the catalog is the one built from it;
\* with an archive that cannot be opened, at startup or after a change of
\* package, the session has not started or has ended.
C21_QueriesOnlyOnBuiltCatalog ==
    /\ phase = "running" =>
           /\ archive.ok
           /\ HYMNAL.ok
           /\ HYMNAL = parseHymnDatabase(archive.FNS)
    /\ last.op \in {"query", "launch"} => HYMNAL.ok /\ archive.ok
    /\ ~archive.ok => phase \in {"boot", "exited"}

\* C21, witness: a session that served a query was ended by a change to a
\* package that cannot be opened.
C21_Witness ==
    /\ ~archive.ok
    /\ phase = "exited"
    /\ last.op = "update"
    /\ HYMNAL.ok
    /\ CURRENT_HINFO.kind = "HymnInfo"

\* The step is a pass of the timer that writes a query record.
TimerRecords == last'.op = "tick" /\ now' # now

\* C22 (Spec): the timer never writes a query record on its first pass
\* after a change of the input: at least one pass lies between the change
\* and the recording.
C22_NoRecordingOnFirstTick == [][TimerRecords => ~fresh]_vars

\* C23 (Spec): the timer writes no query record for the current number
\* while that number is the one in LAST_QUERY_ID, however often
\* updateDetails runs for it.
C23_NoSecondRecordOfSameNumber ==
    [][TimerRecords => LAST_QUERY_ID # CURRENT_HINFO.num]_vars

\* C23, witness: the number recorded last was queried again, and the timer
\* has ended the wait of that query without a record: the entry holds the
\* one query of the first recording.
C23_Witness ==
    /\ last.op = "query" /\ last.queried
    /\ CURRENT_HINFO.kind = "HymnInfo"
    /\ LAST_QUERY_ID = CURRENT_HINFO.num
    /\ ~QUERY_TIMEOUT
    /\ ~fresh
    /\ Stored(SDATA, CURRENT_HINFO.num) = <<1, 0, 0>>

\* C24 (SpecFiles): every call of deleteOldest returns, and on return the
\* number of files listed is at most the threshold (0 with deleteAll),
\* whether or not a removal fails with PermissionError or
\* FileNotFoundError.
C24_DeleteOldestTerminates ==
    (fmn.pc = "loop") ~>
        /\ fmn.pc = "returned"
        /\ Cardinality(temp.files) <= Limit(fmn.threshold, fmn.deleteAll)

\* The step writes a query record or a launch record.
Records == last'.op \in {"tick", "launch"} /\ now' # now

\* Documents d and e agree on everything but the entry of number n.
SameBut(d, e, n) ==
    /\ DOMAIN d = DOMAIN e
    /\ \A key \in DOMAIN d \ {"DATA"} : d[key] = e[key]
    /\ DOMAIN d.DATA \ {n} = DOMAIN e.DATA \ {n}
    /\ \A k \in DOMAIN d.DATA \ {n} : d.DATA[k] = e.DATA[k]

\* C25 (Spec): a recording for number n, by the timer or by a launch,
\* leaves every other number's entry and the metadata of the document as
\* they were, in the record in memory and in the file.
C25_RecordingChangesOneEntry ==
    [][Records =>
          /\ SameBut(SDATA, SDATA', last'.num)
          /\ FILE_DATA'.kind = "json"
          /\ SameBut(FILE_DATA.doc, FILE_DATA'.doc, last'.num)]_vars

\* C25, witness: a recording was made while another number had an entry
\* with queries and launches.
C25_Witness ==
    /\ last.op \in {"tick", "launch"}
    /\ \E k \in Keys \ {last.num} :
         /\ Stored(SDATA, k)[1] > 0 /\ Stored(SDATA, k)[2] > 0
         /\ Stored(FILE_DATA.doc, k) = Stored(SDATA, k)

\* C26 (Spec): in every running session the keys of the record's DATA
\* mapping are exactly the numbers 001..HYMNS_MAX, each with an array of
\* three elements.
C26_KeysAreTheNumbers ==
    phase = "running" =>
        /\ DOMAIN SDATA.DATA = Keys
        /\ \A k \in Keys :
             SDATA.DATA[k].t = "arr" /\ Len(SDATA.DATA[k].v) = 3

\* The query of number n waits for the timer: n is current, it is not the
\* number recorded last, and the clock of the model can still advance.
Pending(n) ==
    /\ phase = "running"
    /\ QUERY_TIMEOUT
    /\ CURRENT_HINFO.kind = "HymnInfo"
    /\ CURRENT_HINFO.num = n
    /\ LAST_QUERY_ID # n
    /\ now < MaxTime

\* C27 (SpecTimer): with a timer that keeps running, a pending query of a
\* number of 001..HYMNS_MAX is recorded in the end, unless the number
\* stops being current or the input becomes invalid first.
C27_PendingQueryRecorded ==
    \A n \in Keys :
        Pending(n) ~>
            IF CURRENT_HINFO.kind = "HymnInfo"
            THEN \/ LAST_QUERY_ID = n
                 \/ CURRENT_HINFO.num # n
                 \/ ~QUERY_TIMEOUT
            ELSE TRUE

\* C28 (Spec): the timer writes a query record only for a query result
\* that is ready: never for the placeholder of a missing number or any
\* other result that left EXEC_READY false.
C28_NoRecordForUnreadyResult == [][TimerRecords => EXEC_READY]_vars

\* C29 (Spec): the first recording made after a reset, for the HymnInfo
\* that was displayed when the record was reset, counts from the zeroed
\* record: it leaves queries and launches of its number at most 1.
C29_RecordingAfterResetCountsFromZero ==
    [][(Records /\ stale = "reset") =>
          /\ Stored(SDATA', last'.num)[1] <= 1
          /\ Stored(SDATA', last'.num)[2] <= 1]_vars

\* The result of resolving number n on the catalog and record in use.
Resolve(n) == getStats(HYMNAL, SDATA, n).info

\* Resolving n reports category c and an equivalent number that is not
\* indexed in EN when c is EN (n is not indexed in EN when c is TL), and
\* resolving that number reports the other category, n as its equivalent
\* and the title of n as the equivalent title.
SymmetricAt(n) ==
    LET r == Resolve(n)
        q == Resolve(r.eqNum)
    IN  /\ (r.cat = CatEN /\ r.eqNum # Empty /\ ~In(r.eqNum, HYMNAL.EN[1]))
            => (q.cat = CatTL /\ q.eqNum = n /\ q.eqTitle = r.title)
        /\ (r.cat = CatTL /\ r.eqNum # Empty /\ ~In(n, HYMNAL.EN[1]))
            => (q.cat = CatEN /\ q.eqNum = n /\ q.eqTitle = r.title)

\* C30 as stated (SpecCatalog): equivalence is symmetric for every number
\* whose equivalent is found, when the equivalent of an EN number is not
\* indexed in EN.
C30_Original ==
    (phase = "running" /\ HYMNAL.ok) =>
        \A n \in {toDigits(i) : i \in 1..(HYMNS_MAX + 1)} : SymmetricAt(n)

\* C30 amended (SpecCatalog): equivalence is symmetric under the same
\* conditions when the equivalent number, too, is within 001..HYMNS_MAX.
C30_Amended ==
    (phase = "running" /\ HYMNAL.ok) =>
        \A n \in Keys : Resolve(n).eqNum \in Keys => SymmetricAt(n)

\* C30, witness: an EN number and a TL number within 001..HYMNS_MAX are
\* each other's equivalent, and the TL number is not indexed in EN.
C30_Witness ==
    /\ phase = "running" /\ HYMNAL.ok
    /\ \E n \in Keys :
         /\ Resolve(n).cat = CatEN
         /\ Resolve(n).title # Empty
         /\ Resolve(n).eqNum \in Keys
         /\ ~In(Resolve(n).eqNum, HYMNAL.EN[1])
         /\ Resolve(Resolve(n).eqNum).eqNum = n

=============================================================================
